---------------------------- MODULE Spec2Model ----------------------------
(***************************************************************************)
(* Porcupine wake-word WebSocket server.                                   *)
(*                                                                         *)
(* The repository holds four near-identical server programs:               *)
(*   "https"  : src/server.js lines   1-106 (HTTPS + WSS)                  *)
(*   "http"   : src/server.js lines 108-237 (plain HTTP)                   *)
(*   "esm"    : src/server.js lines 239-325 (ES module, no try/catch)      *)
(*   "render" : src/unnamed/part_000        (ES module, for Render)        *)
(* One of them runs; `variant` says which.  Node runs the top-level script *)
(* to completion, then the event loop runs one callback at a time          *)
(* (connection, message, close, SIGINT), each to completion.               *)
(***************************************************************************)
EXTENDS Integers, Sequences, FiniteSets, TLC

VARIABLES
    variant,          \* which of the four programs runs
    ACCESS_KEY,       \* process.env.PORCUPINE_ACCESS_KEY || ""
    KEYWORD_PATHS,    \* (process.env.KEYWORD_PATHS || "porcupine.ppn").split(",")
    initThrows,       \* environment: does new porcupine.Porcupine(...) throw
    pc,               \* position of the process
    exitCode,         \* exit status once the process has ended, else -1
    porcupineHandle,  \* "undefined" | "live" | "deleted"
    deleteCount,      \* number of porcupineHandle.delete() calls made
    listening,        \* server.listen() has been called
    open,             \* open[c]: connection c is established
    sampleBuffer,     \* sampleBuffer[c]: the closure variable of connection c
    outbox,           \* outbox[c]: what ws.send() has sent on connection c
    received,         \* history: samples interpreted from c's binary chunks
    processed,        \* history: porcupineHandle.process() calls made for c,
                      \* each with the number of messages sent before it
    console,          \* the last line a callback wrote to the console
    sent              \* environment: bytes c's client has sent as audio

vars == <<variant, ACCESS_KEY, KEYWORD_PATHS, initThrows, pc, exitCode, porcupineHandle,
          deleteCount, listening, open, sampleBuffer, outbox, received,
          processed, console, sent>>

----------------------------------------------------------------------------
(* Bounds of the model *)

\* porcupine.FRAME_LENGTH || 512 in the source; any positive length the
\* library reports.  The model runs it scaled down.
FRAME_LENGTH == 2

\* Audio bytes the clients of the current connections send in total.
MaxBytes == 8

Variants == {"https", "http", "esm", "render"}

Conns == {1, 2}

\* Results of porcupineHandle.process(frame): -1 is "no keyword", 0 and 1
\* index the two keywords that sensitivities = [1, 1] provides for.
KeywordIndices == {-1, 0, 1}

DetectorOutcomes ==
    [throws : {FALSE}, keywordIndex : KeywordIndices]
        \cup {[throws |-> TRUE, keywordIndex |-> -1]}

\* Values of process.env.KEYWORD_PATHS, as sequences of characters: unset
\* (or empty), two paths with a blank after the comma, three paths.
KeywordPathsEnv ==
    {<< >>, <<"a", ",", " ", "b">>, <<"a", ",", "b", ",", "c">>}

\* "porcupine.ppn", taken as one character.
DefaultKeywordPaths == <<"p">>

RECURSIVE Split(_, _)
\* str.split(sep)
Split(str, sep) ==
    IF \E i \in 1..Len(str) : str[i] = sep
    THEN LET i == CHOOSE i \in 1..Len(str) :
                      str[i] = sep /\ \A j \in 1..(i - 1) : str[j] # sep
         IN  <<SubSeq(str, 1, i - 1)>> \o Split(SubSeq(str, i + 1, Len(str)), sep)
    ELSE <<str>>

RECURSIVE StringTrim(_)
\* s.trim()
StringTrim(str) ==
    IF str # << >> /\ str[1] = " " THEN StringTrim(Tail(str))
    ELSE IF str # << >> /\ str[Len(str)] = " "
         THEN StringTrim(SubSeq(str, 1, Len(str) - 1))
         ELSE str

\* (env || "porcupine.ppn").split(",").map(s => s.trim())
KeywordPathsOf(env) ==
    LET parts == Split(IF env = << >> THEN DefaultKeywordPaths ELSE env, ",")
    IN  [i \in 1..Len(parts) |-> StringTrim(parts[i])]

\* const sensitivities = [1, 1];
sensitivities == <<1, 1>>

Texts == {"{\"type\":\"info\"}", "{\"type\":\"other\"}", "null", "hello"}

----------------------------------------------------------------------------
(* Typed arrays and buffers *)

\* TypedArray.prototype.slice(begin, end) and Buffer.prototype.slice for
\* 0 <= begin, 0 <= end: the elements begin .. end-1 (0-based), clamped.
Slice(arr, begin, end) ==
    LET e == IF end > Len(arr) THEN Len(arr) ELSE end
    IN  IF begin >= e THEN << >> ELSE SubSeq(arr, begin + 1, e)

SliceFrom(arr, begin) == Slice(arr, begin, Len(arr))

\* One little-endian signed 16-bit sample from its two bytes.
Int16(lo, hi) ==
    LET u == lo + 256 * hi
    IN  IF u >= 32768 THEN u - 65536 ELSE u

\* new Int16Array(buf.buffer, buf.byteOffset, buf.length / 2)
Int16View(buf) ==
    [i \in 1..(Len(buf) \div 2) |-> Int16(buf[2 * i - 1], buf[2 * i])]


----------------------------------------------------------------------------
(* The clients.  The handler never looks at the value of a sample, so the  *)
(* audio of connection c is one fixed byte stream whose bytes differ from  *)
(* place to place and from connection to connection (and reach above 127,  *)
(* so that samples of both signs occur); what varies is how the client     *)
(* cuts it into chunks.                                                    *)

\* Byte number p (from 0) of the audio that c's client streams.
StreamByte(c, p) == (101 * c + 37 * p) % 256

\* The next n bytes of c's stream after the first `from`.
StreamChunk(c, from, n) == [i \in 1..n |-> StreamByte(c, from + i - 1)]

RECURSIVE TotalSent(_, _)
\* Bytes sent on the connections in S.
TotalSent(f, S) ==
    IF S = {} THEN 0
    ELSE LET c == CHOOSE x \in S : TRUE
         IN  f[c] + TotalSent(f, S \ {c})

----------------------------------------------------------------------------
(* Differences between the four programs *)

\* The frame loop wraps porcupineHandle.process() in try/catch.
HasTryCatch(v) == v \in {"https", "http", "render"}

\* `const buf = Buffer.from(msg)`: the later `buf = buf.slice(...)` throws
\* TypeError: Assignment to constant variable.
BufIsConst(v) == v \in {"http", "render"}

\* obj?.type and obj && obj.type tolerate obj = null; obj.type does not.
NullSafeTypeAccess(v) == v \in {"https", "http"}

\* The buffer is reset to new Int16Array(0) when exactly one frame is left.
ExactFrameSpecialCase(v) == v \in {"https", "http"}

\* new porcupine.Porcupine(...) is wrapped in try/catch.
InitHasTryCatch(v) == v \in {"https", "http", "render"}

\* SIGINT handler tests `if (porcupineHandle)` before delete().
SigintNullCheck(v) == v \in {"https", "http", "render"}

LogReceivedText(v) ==
    IF v = "http" THEN "Received text message:" ELSE "Received text:"

LogWake(v) ==
    IF v = "esm" THEN "Wake word detected!"
    ELSE "Wake detected -> sent to client"

LogProcessError(v) ==
    IF v = "render" THEN "Porcupine error:"
    ELSE "Error while running porcupine.process:"

----------------------------------------------------------------------------
(* The message handler.  It works on the record                            *)
(*   [sampleBuffer, outbox, received, processed, console, thrown]          *)
(* of one connection; thrown says an exception left the handler.           *)

\* JSON.parse(msg) on the texts of the model.
JSONParse(text) ==
    CASE text = "{\"type\":\"info\"}" ->
            [throws |-> FALSE, isNull |-> FALSE, type |-> "info"]
      [] text = "{\"type\":\"other\"}" ->
            [throws |-> FALSE, isNull |-> FALSE, type |-> "other"]
      [] text = "null" ->
            [throws |-> FALSE, isNull |-> TRUE, type |-> ""]
      [] OTHER ->
            [throws |-> TRUE, isNull |-> FALSE, type |-> ""]

\* Whether the try block of the text branch throws: JSON.parse fails, or
\* obj.type is read from null.
TextTryThrows(v, text) ==
    LET obj == JSONParse(text)
    IN  obj.throws \/ (obj.isNull /\ ~NullSafeTypeAccess(v))

\* Mutant of TextCatches: the try of the text branch has no catch.
TextCatchesNothing(v) == FALSE

\* The catch clause of the text branch takes every exception of its try.
TextCatches(v) == TRUE

\* if (typeof msg === "string") { try {...} catch {...} return; }
TextBranch(v, st, text) ==
    IF TextTryThrows(v, text)
    THEN IF TextCatches(v)
         THEN [st EXCEPT !.console = LogReceivedText(v)]
         ELSE [st EXCEPT !.thrown = TRUE]
    ELSE IF JSONParse(text).type = "info"
         THEN [st EXCEPT !.console = "Client info:"]
         ELSE st

WakeMessage(keywordIndex) == [event |-> "wake", keywordIndex |-> keywordIndex]

ErrorMessage == [event |-> "error", message |-> "Error"]

\* Mutant of IsWake: index 0 is taken for "no keyword".
IsWakeStrict(keywordIndex) == keywordIndex > 0

\* if (keywordIndex >= 0)
IsWake(keywordIndex) == keywordIndex >= 0

\* A trimming that would cut one sample less than a frame.
TrimShort(v, buf) == SliceFrom(buf, FRAME_LENGTH - 1)

\* Removing the processed frame from the buffer.
Trim(v, buf) ==
    IF ExactFrameSpecialCase(v) /\ Len(buf) = FRAME_LENGTH
    THEN << >>
    ELSE SliceFrom(buf, FRAME_LENGTH)

\* One iteration of while (sampleBuffer.length >= FRAME_LENGTH), with the
\* detector's outcome d for the frame.
LoopBody(v, st, d) ==
    LET frame  == Slice(st.sampleBuffer, 0, FRAME_LENGTH)
        called == [st EXCEPT !.processed =
                       Append(@, [frame |-> frame, outcome |-> d,
                                  sentBefore |-> Len(st.outbox)])]
    IN  IF d.throws
        THEN IF HasTryCatch(v)
             THEN [called EXCEPT !.console = LogProcessError(v),
                                 !.outbox = Append(@, ErrorMessage),
                                 !.sampleBuffer = Trim(v, @)]
             ELSE [called EXCEPT !.thrown = TRUE]
        ELSE IF IsWake(d.keywordIndex)
             THEN [called EXCEPT !.outbox =
                                     Append(@, WakeMessage(d.keywordIndex)),
                                 !.console = LogWake(v),
                                 !.sampleBuffer = Trim(v, @)]
             ELSE [called EXCEPT !.sampleBuffer = Trim(v, @)]

RECURSIVE FrameLoopDeferred(_, _, _)
\* The loop of a handler that would collect its messages in pending and
\* send them after the last frame of the chunk.
FrameLoopDeferred(v, st, pending) ==
    IF st.thrown \/ ~(Len(st.sampleBuffer) >= FRAME_LENGTH)
    THEN {[st EXCEPT !.outbox = @ \o pending]}
    ELSE UNION {LET nx == LoopBody(v, st, d)
                IN  FrameLoopDeferred(v, [nx EXCEPT !.outbox = st.outbox],
                        pending \o SubSeq(nx.outbox, Len(st.outbox) + 1,
                                          Len(nx.outbox)))
                : d \in DetectorOutcomes}

\* A handler that would batch the results of a chunk.
FrameLoopBatched(v, st) == FrameLoopDeferred(v, st, << >>)

\* A handler that would pass one frame to the detector and return to the
\* event loop, leaving the rest of the chunk to a later turn.
FrameLoopOneFrame(v, st) ==
    IF st.thrown \/ ~(Len(st.sampleBuffer) >= FRAME_LENGTH)
    THEN {st}
    ELSE {LoopBody(v, st, d) : d \in DetectorOutcomes}

RECURSIVE FrameLoop(_, _)
\* The while loop: the set of records it can end in, over all outcomes of
\* the detector calls it makes.
FrameLoop(v, st) ==
    IF st.thrown \/ ~(Len(st.sampleBuffer) >= FRAME_LENGTH)
    THEN {st}
    ELSE UNION {FrameLoop(v, LoopBody(v, st, d)) : d \in DetectorOutcomes}

\* Odd length: drop the last byte.  The assignment throws when buf is const.
DropOddByte(v, buf) ==
    IF Len(buf) % 2 # 0
    THEN [throws |-> BufIsConst(v), buf |-> Slice(buf, 0, Len(buf) - 1)]
    ELSE [throws |-> FALSE, buf |-> buf]

\* The handler from Buffer.from(msg) on.
BinaryBranch(v, st, bytes) ==
    LET warned == IF v = "http" /\ Len(bytes) % 2 # 0
                  THEN [st EXCEPT !.console =
                      "Received audio buffer with odd length, dropping last byte."]
                  ELSE st
        even == DropOddByte(v, bytes)
        incoming == Int16View(even.buf)
    IN  IF even.throws
        THEN {[warned EXCEPT !.thrown = TRUE]}
        ELSE FrameLoop(v, [warned EXCEPT
                              !.sampleBuffer = @ \o incoming,
                              !.received = @ \o incoming])

\* ws.on("message", (msg) => ...): the records the handler can end in.
MessageHandler(v, st, msg) ==
    IF msg.isString
    THEN {TextBranch(v, st, msg.data)}
    ELSE BinaryBranch(v, st, msg.data)

TextMessage(text) == [isString |-> TRUE, data |-> text]

BinaryMessage(bytes) == [isString |-> FALSE, data |-> bytes]

\* A handler that would work on one buffer declared outside the connection
\* callback, shared by every connection.
ConnStateShared(c) ==
    [sampleBuffer |-> sampleBuffer[CHOOSE d \in Conns : \A e \in Conns : d <= e],
     outbox |-> outbox[c],
     received |-> received[c], processed |-> processed[c],
     console |-> console, thrown |-> FALSE]

\* What the handler of connection c sees of the state.
ConnState(c) ==
    [sampleBuffer |-> sampleBuffer[c], outbox |-> outbox[c],
     received |-> received[c], processed |-> processed[c],
     console |-> console, thrown |-> FALSE]

----------------------------------------------------------------------------
(* Start-up: the top-level script *)

Init ==
    /\ variant \in Variants
    /\ ACCESS_KEY \in {"", "key"}
    /\ KEYWORD_PATHS \in {KeywordPathsOf(env) : env \in KeywordPathsEnv}
    /\ initThrows \in BOOLEAN
    /\ pc = "check_key"
    /\ exitCode = -1
    /\ porcupineHandle = "undefined"
    /\ deleteCount = 0
    /\ listening = FALSE
    /\ open = [c \in Conns |-> FALSE]
    /\ sampleBuffer = [c \in Conns |-> << >>]
    /\ outbox = [c \in Conns |-> << >>]
    /\ received = [c \in Conns |-> << >>]
    /\ processed = [c \in Conns |-> << >>]
    /\ console = ""
    /\ sent = [c \in Conns |-> 0]

\* Mutant of KeyMissing: the check of the key is skipped.
KeyMissingNever(key) == FALSE

\* if (!ACCESS_KEY)
KeyMissing(key) == key = ""

\* if (!ACCESS_KEY) { console.error(...); process.exit(1); }
CheckAccessKey ==
    /\ pc = "check_key"
    /\ IF KeyMissing(ACCESS_KEY)
       THEN pc' = "exited" /\ exitCode' = 1
       ELSE pc' = "init" /\ UNCHANGED exitCode
    /\ UNCHANGED <<variant, ACCESS_KEY, KEYWORD_PATHS, initThrows,
                   porcupineHandle,
                   deleteCount, listening, open, sampleBuffer, outbox,
                   received, processed, console, sent>>

\* A start-up that would log the failure of the constructor and carry on.
InitPorcupineCarriesOn ==
    /\ pc = "init"
    /\ pc' = "listen"
    /\ porcupineHandle' = IF initThrows THEN porcupineHandle ELSE "live"
    /\ UNCHANGED <<variant, ACCESS_KEY, KEYWORD_PATHS, initThrows, exitCode,
                   deleteCount, listening, open, sampleBuffer, outbox,
                   received, processed, console, sent>>

\* porcupineHandle = new porcupine.Porcupine(ACCESS_KEY, KEYWORD_PATHS,
\* sensitivities).  A throw is caught and ends in process.exit(1); in "esm"
\* nothing catches it and Node ends the process with status 1.
InitPorcupine ==
    /\ pc = "init"
    /\ IF initThrows
       THEN /\ pc' = IF InitHasTryCatch(variant) THEN "exited" ELSE "crashed"
            /\ exitCode' = 1
            /\ UNCHANGED porcupineHandle
       ELSE /\ pc' = "listen"
            /\ porcupineHandle' = "live"
            /\ UNCHANGED exitCode
    /\ UNCHANGED <<variant, ACCESS_KEY, KEYWORD_PATHS, initThrows,
                   deleteCount, listening,
                   open, sampleBuffer, outbox, received, processed, console,
                   sent>>

\* wss.on("connection", ...); process.on("SIGINT", ...); server.listen(PORT)
Listen ==
    /\ pc = "listen"
    /\ pc' = "serving"
    /\ listening' = TRUE
    /\ UNCHANGED <<variant, ACCESS_KEY, KEYWORD_PATHS, initThrows,
                   exitCode,
                   porcupineHandle, deleteCount, open, sampleBuffer, outbox,
                   received, processed, console, sent>>

----------------------------------------------------------------------------
(* Callbacks of the event loop *)

\* A connection callback that would keep one buffer for all the connections
\* made on a slot instead of declaring a new empty one in its closure.
ConnectionKeepsBuffer(c) ==
    /\ pc = "serving"
    /\ listening
    /\ ~open[c]
    /\ open' = [open EXCEPT ![c] = TRUE]
    /\ outbox' = [outbox EXCEPT ![c] = << >>]
    /\ received' = [received EXCEPT ![c] = << >>]
    /\ processed' = [processed EXCEPT ![c] = << >>]
    /\ console' = "Client connected:"
    /\ sent' = [sent EXCEPT ![c] = 0]
    /\ UNCHANGED <<variant, ACCESS_KEY, KEYWORD_PATHS, initThrows,
                   pc, exitCode, sampleBuffer,
                   porcupineHandle, deleteCount, listening>>

\* wss.on("connection", (ws, req) => { let sampleBuffer = new Int16Array(0) }
Connection(c) ==
    /\ pc = "serving"
    /\ listening
    /\ ~open[c]
    /\ open' = [open EXCEPT ![c] = TRUE]
    /\ sampleBuffer' = [sampleBuffer EXCEPT ![c] = << >>]
    /\ outbox' = [outbox EXCEPT ![c] = << >>]
    /\ received' = [received EXCEPT ![c] = << >>]
    /\ processed' = [processed EXCEPT ![c] = << >>]
    /\ console' = "Client connected:"
    /\ sent' = [sent EXCEPT ![c] = 0]
    /\ UNCHANGED <<variant, ACCESS_KEY, KEYWORD_PATHS, initThrows,
                   pc, exitCode,
                   porcupineHandle, deleteCount, listening>>

\* ws.on("close", () => console.log("Client disconnected."))
Close(c) ==
    /\ pc = "serving"
    /\ open[c]
    /\ open' = [open EXCEPT ![c] = FALSE]
    /\ console' = "Client disconnected."
    /\ UNCHANGED <<variant, ACCESS_KEY, KEYWORD_PATHS, initThrows,
                   pc, exitCode,
                   porcupineHandle, deleteCount, listening, sampleBuffer,
                   outbox, received, processed, sent>>

\* The message callback of connection c on msg.  An exception that leaves
\* it is uncaught: Node ends the process with status 1.
OnMessage(c, msg) ==
    /\ pc = "serving"
    /\ open[c]
    /\ \E fin \in MessageHandler(variant, ConnState(c), msg) :
          /\ sampleBuffer' = [sampleBuffer EXCEPT ![c] = fin.sampleBuffer]
          /\ outbox' = [outbox EXCEPT ![c] = fin.outbox]
          /\ received' = [received EXCEPT ![c] = fin.received]
          /\ processed' = [processed EXCEPT ![c] = fin.processed]
          /\ console' = fin.console
          /\ IF fin.thrown
             THEN pc' = "crashed" /\ exitCode' = 1
             ELSE UNCHANGED <<pc, exitCode>>
    /\ UNCHANGED <<variant, ACCESS_KEY, KEYWORD_PATHS, initThrows,
                   porcupineHandle,
                   deleteCount, listening, open>>

\* A text message arrives on c.
Text(c) ==
    /\ \E text \in Texts : OnMessage(c, TextMessage(text))
    /\ UNCHANGED sent

\* A binary message arrives on c: the next n bytes of the client's audio.
Binary(c) ==
    \E n \in 0..(MaxBytes - TotalSent(sent, Conns)) :
        /\ OnMessage(c, BinaryMessage(StreamChunk(c, sent[c], n)))
        /\ sent' = [sent EXCEPT ![c] = @ + n]

\* Mutant of ReleasesHandle: the test is inverted, if (!porcupineHandle).
ReleasesHandleInverted(v, handle) == handle = "undefined"

\* if (porcupineHandle) porcupineHandle.delete()   ("esm": no test)
ReleasesHandle(v, handle) == ~SigintNullCheck(v) \/ handle # "undefined"

\* A shutdown handler that would release the handle and not end the process.
SigintKeepsServing ==
    /\ pc = "serving"
    /\ porcupineHandle = "live"
    /\ porcupineHandle' = "deleted"
    /\ deleteCount' = deleteCount + 1
    /\ console' = "Shutting down..."
    /\ UNCHANGED <<variant, ACCESS_KEY, KEYWORD_PATHS, initThrows, pc,
                   exitCode, listening, open, sampleBuffer, outbox,
                   received, processed, sent>>

\* process.on("SIGINT", () => { ...delete(); process.exit(0); })
\* delete() on an undefined handle throws before process.exit(0).
Sigint ==
    /\ pc = "serving"
    /\ IF ReleasesHandle(variant, porcupineHandle)
       THEN IF porcupineHandle = "undefined"
            THEN /\ pc' = "crashed" /\ exitCode' = 1
                 /\ UNCHANGED <<porcupineHandle, deleteCount>>
            ELSE /\ porcupineHandle' = "deleted"
                 /\ deleteCount' = deleteCount + 1
                 /\ pc' = "exited" /\ exitCode' = 0
       ELSE /\ pc' = "exited" /\ exitCode' = 0
            /\ UNCHANGED <<porcupineHandle, deleteCount>>
    /\ console' = "Shutting down..."
    /\ UNCHANGED <<variant, ACCESS_KEY, KEYWORD_PATHS, initThrows,
                   listening, open,
                   sampleBuffer, outbox, received, processed, sent>>

Next ==
    \/ CheckAccessKey
    \/ InitPorcupine
    \/ Listen
    \/ \E c \in Conns : Connection(c)
    \/ \E c \in Conns : Close(c)
    \/ \E c \in Conns : Text(c)
    \/ \E c \in Conns : Binary(c)
    \/ Sigint

Spec == Init /\ [][Next]_vars

\* The three programs whose frame loop catches the detector's exceptions.
InitTryCatch == Init /\ HasTryCatch(variant)

SpecTryCatch == InitTryCatch /\ [][Next]_vars

\* The two programs that declare `let buf`.
InitLetBuf == Init /\ ~BufIsConst(variant)

SpecLetBuf == InitLetBuf /\ [][Next]_vars

----------------------------------------------------------------------------
(* What the claims speak of *)

\* The complete frames of a sample sequence, in order.
FramesOf(samples) ==
    [k \in 1..(Len(samples) \div FRAME_LENGTH) |->
        SubSeq(samples, (k - 1) * FRAME_LENGTH + 1, k * FRAME_LENGTH)]

\* The frames passed to the detector for c, in the order of the calls.
PassedFrames(c) == [k \in 1..Len(processed[c]) |-> processed[c][k].frame]

\* All the audio c's client has sent, as samples.
SamplesSent(c) == Int16View(StreamChunk(c, 0, sent[c]))

\* Every chunk received on c so far had even length: no byte was dropped.
AllChunksEven(c) == sent[c] = 2 * Len(received[c])

IsWakeMessage(m) == m.event = "wake"

IsErrorMessage(m) == m.event = "error"

Matched(call) == ~call.outcome.throws /\ call.outcome.keywordIndex >= 0

Threw(call) == call.outcome.throws

\* The wake messages the detector's results on c's frames call for.
WakesDue(c) ==
    LET hits == SelectSeq(processed[c], Matched)
    IN  [i \in 1..Len(hits) |->
            [event |-> "wake", keywordIndex |-> hits[i].outcome.keywordIndex]]

\* C1: after every message handler, returned or aborted, each connection's
\* Sample Buffer is shorter than one frame.
C1_BufferBelowFrameLength ==
    \A c \in Conns : Len(sampleBuffer[c]) < FRAME_LENGTH

\* C2: when the even-length chunks received on a connection add up to a
\* whole number N of frames, exactly N frames have been passed on, and
\* frame k is samples [k*FRAME_LENGTH, (k+1)*FRAME_LENGTH) of the audio sent.
C2_WholeFramesEmitted ==
    \A c \in Conns :
        (AllChunksEven(c) /\ Len(SamplesSent(c)) % FRAME_LENGTH = 0)
            => PassedFrames(c) = FramesOf(SamplesSent(c))

\* C3: when the even-length chunks received on a connection leave a
\* remainder R > 0, floor(total / FRAME_LENGTH) frames have been passed on
\* and the Sample Buffer holds exactly the last R samples sent.
C3_RemainderRetained ==
    \A c \in Conns :
        LET total == Len(SamplesSent(c))
            R == total % FRAME_LENGTH
        IN  (AllChunksEven(c) /\ R # 0)
                => /\ Len(processed[c]) = total \div FRAME_LENGTH
                   /\ sampleBuffer[c] = SubSeq(SamplesSent(c), total - R + 1, total)

\* C4: a chunk of odd length L is handled as the chunk of its first L-1
\* bytes is: the same frames passed on, the same messages sent, the same
\* Sample Buffer left, no exception of its own, the connection still open.
C4_OddChunkAsEvenPrefix ==
    [][\A c \in Conns : \A n \in 1..MaxBytes :
          (n % 2 = 1 /\ OnMessage(c, BinaryMessage(StreamChunk(c, sent[c], n))))
              => /\ open'[c]
                 /\ \E fin \in MessageHandler(variant, ConnState(c),
                                   BinaryMessage(StreamChunk(c, sent[c], n - 1))) :
                       /\ sampleBuffer'[c] = fin.sampleBuffer
                       /\ processed'[c] = fin.processed
                       /\ outbox'[c] = fin.outbox
                       /\ (pc' = "crashed") = fin.thrown]_vars

\* C5: on every connection the wake messages sent are exactly one per frame
\* for which the detector returned an index >= 0, carrying that index, in
\* the order of the frames; a frame with a negative index adds no message.
C5_WakePerMatch ==
    \A c \in Conns :
        /\ SelectSeq(outbox[c], IsWakeMessage) = WakesDue(c)
        /\ Len(outbox[c]) <= Len(SelectSeq(processed[c], Matched))
                               + Len(SelectSeq(processed[c], Threw))

C5_Witness ==
    \E c \in Conns : \E d \in Conns \ {c} :
        /\ open[c] /\ open[d]
        /\ Len(processed[c]) = 2
        /\ processed[c][1].outcome = [throws |-> FALSE, keywordIndex |-> -1]
        /\ processed[c][2].outcome = [throws |-> FALSE, keywordIndex |-> 0]
        /\ outbox[c] = <<[event |-> "wake", keywordIndex |-> 0]>>
        /\ outbox[d] = << >>

\* C6: a handler in which the detector raised an error sends one error
\* message per failed frame on its own connection, removes the failed
\* frames, goes on to pass every later complete frame, and leaves the
\* connection open and the process running.
C6_DetectorErrorRecovered ==
    [][\A c \in Conns :
          (/\ Len(processed'[c]) > Len(processed[c])
           /\ Len(SelectSeq(processed'[c], Threw))
                  > Len(SelectSeq(processed[c], Threw)))
              => /\ Len(SelectSeq(outbox'[c], IsErrorMessage))
                        - Len(SelectSeq(outbox[c], IsErrorMessage))
                      = Len(SelectSeq(processed'[c], Threw))
                        - Len(SelectSeq(processed[c], Threw))
                 /\ \A d \in Conns \ {c} : outbox'[d] = outbox[d]
                 /\ PassedFrames(c)' = FramesOf(received'[c])
                 /\ Len(sampleBuffer'[c]) < FRAME_LENGTH
                 /\ open'[c]
                 /\ pc' = "serving"]_vars

\* C7: the frames passed to the detector for a connection are exactly the
\* complete frames of the samples taken in on it, each once, in order.
C7_EveryFrameOnceInOrder ==
    \A c \in Conns : PassedFrames(c) = FramesOf(received[c])

\* C8: a text message, whatever its content, changes nothing but the
\* console: no buffer, no detector call, no message sent, nothing thrown,
\* the connection and the process as they were.
C8_TextOnlyLogged ==
    [][\A c \in Conns : \A text \in Texts :
          OnMessage(c, TextMessage(text))
              => UNCHANGED <<sampleBuffer, outbox, received, processed, open,
                             pc, exitCode, porcupineHandle, deleteCount>>]_vars

C8_Witness ==
    \E c \in Conns :
        /\ variant = "esm"
        /\ pc = "serving"
        /\ open[c]
        /\ Len(sampleBuffer[c]) = 1
        /\ console = "Received text:"

\* C9: with the access key missing the process never initialises the
\* detector, never listens, never has a connection or a detector call, and
\* once it has ended its status is not 0.
C9_NoKeyNoService ==
    ACCESS_KEY = ""
        => /\ pc \in {"check_key", "exited"}
           /\ pc = "exited" => exitCode > 0
           /\ porcupineHandle = "undefined"
           /\ ~listening
           /\ \A c \in Conns : ~open[c] /\ processed[c] = << >>

C9_Witness == ACCESS_KEY = "" /\ pc = "exited" /\ exitCode = 1

\* C10: the handle is released at most once; a process that ended on the
\* shutdown signal (status 0) has released it exactly once, and a released
\* handle means the process has ended.
C10_ReleasedOnceOnSigint ==
    /\ deleteCount <= 1
    /\ (pc = "exited" /\ exitCode = 0)
          => (deleteCount = 1 /\ porcupineHandle = "deleted")
    /\ deleteCount = 1 => (pc = "exited" /\ exitCode = 0)

C10_Witness ==
    /\ pc = "exited" /\ exitCode = 0 /\ deleteCount = 1
    /\ \A c \in Conns : open[c]
    /\ \E c \in Conns : Len(sampleBuffer[c]) > 0

\* arr ends with tail.
IsSuffix(tail, arr) ==
    /\ Len(tail) <= Len(arr)
    /\ tail = SubSeq(arr, Len(arr) - Len(tail) + 1, Len(arr))

\* C11: the Sample Buffer of a connection holds only samples received on
\* that connection (so it is empty when the connection starts, whatever an
\* earlier connection left behind), and the first frame passed to the
\* detector is the connection's own first FRAME_LENGTH samples.
C11_FreshBufferPerConnection ==
    \A c \in Conns :
        /\ IsSuffix(sampleBuffer[c], received[c])
        /\ Len(processed[c]) >= 1
              => processed[c][1].frame = SubSeq(received[c], 1, FRAME_LENGTH)

\* Connection d was closed with unconsumed samples; c connected after that
\* (its "Client connected:" is the last line logged, and the close of d
\* logs too) and its first frame has been passed to the detector.
C11_Witness ==
    \E c, d \in Conns :
        /\ ~open[d] /\ sampleBuffer[d] # << >>
        /\ open[c] /\ console = "Client connected:"
        /\ Len(processed[c]) >= 1

\* C12: a step in which the detector is called for connection d is one
\* whole message handler: it starts with no connection in the middle of a
\* chunk (no complete frame waiting in any buffer), it makes no detector
\* call and sends nothing for any other connection, and unless an exception
\* left the handler it ends with every frame of the chunk passed.
C12_ChunkFramesConsecutive ==
    [][\A d \in Conns :
          Len(processed'[d]) > Len(processed[d])
              => /\ \A c \in Conns : Len(sampleBuffer[c]) < FRAME_LENGTH
                 /\ \A c \in Conns \ {d} :
                        processed'[c] = processed[c] /\ outbox'[c] = outbox[c]
                 /\ pc' # "crashed"
                       => Len(sampleBuffer'[d]) < FRAME_LENGTH]_vars

\* Two open connections have each had a frame passed to the shared detector.
C12_Witness ==
    \E c, d \in Conns :
        /\ c # d /\ open[c] /\ open[d]
        /\ Len(processed[c]) >= 1 /\ Len(processed[d]) >= 1

\* The step is the handling of a non-empty binary chunk on the open
\* connection c: its client has sent more bytes.
BinaryReceived(c) == open[c] /\ sent'[c] # sent[c]

\* C13: a binary chunk received on connection c leaves the Sample Buffer
\* of every other connection as it was, and after it every frame passed to
\* the detector for c is, in order, a frame of the samples received on c.
C13_BuffersNotShared ==
    [][\A c \in Conns :
          BinaryReceived(c)
              => /\ \A d \in Conns \ {c} : sampleBuffer'[d] = sampleBuffer[d]
                 /\ Len(processed'[c]) <= Len(received'[c]) \div FRAME_LENGTH
                 /\ \A k \in 1..Len(processed'[c]) :
                        processed'[c][k].frame =
                            SubSeq(received'[c], (k - 1) * FRAME_LENGTH + 1,
                                   k * FRAME_LENGTH)]_vars

\* Two connections are open at once, each with samples of its own in its
\* buffer, and a frame has been passed for one of them.
C13_Witness ==
    \E c, d \in Conns :
        /\ c # d /\ open[c] /\ open[d]
        /\ sampleBuffer[c] # << >> /\ sampleBuffer[d] # << >>
        /\ sampleBuffer[c] # sampleBuffer[d]
        /\ Len(processed[c]) >= 1

\* The calls that make the handler send a message: a match, a caught throw.
Relayed(call) == Matched(call) \/ (Threw(call) /\ HasTryCatch(variant))

\* The messages the given detector calls make the handler send, in order.
MessagesFor(calls) ==
    LET events == SelectSeq(calls, Relayed)
    IN  [i \in 1..Len(events) |->
            IF Matched(events[i])
            THEN WakeMessage(events[i].outcome.keywordIndex)
            ELSE ErrorMessage]

\* C14: when frame k of a connection is passed to the detector, the messages
\* for the frames before it have all been sent already, and they are the
\* first messages of the connection's outbox, in the order of their frames;
\* after the handler the outbox is exactly the messages of all its frames.
C14_RelayedPerFrame ==
    \A c \in Conns :
        /\ outbox[c] = MessagesFor(processed[c])
        /\ \A k \in 1..Len(processed[c]) :
              processed[c][k].sentBefore =
                  Len(MessagesFor(SubSeq(processed[c], 1, k - 1)))

\* Two frames of a connection both made the handler send a message: the
\* second was passed to the detector with the first one's message sent.
C14_Witness ==
    \E c \in Conns :
        /\ Len(processed[c]) = 2
        /\ Matched(processed[c][1])
        /\ Threw(processed[c][2]) /\ HasTryCatch(variant)
        /\ processed[c][2].sentBefore = 1
        /\ Len(outbox[c]) = 2

\* What a client can observe of the ways a handler can end, and the buffer.
Observable(fins) ==
    {[sampleBuffer |-> fin.sampleBuffer,
      frames |-> [k \in 1..Len(fin.processed) |-> fin.processed[k].frame],
      outbox |-> fin.outbox, thrown |-> fin.thrown] : fin \in fins}

\* On the state reached, any further chunk of c is handled alike by "http",
\* which resets the buffer when exactly one frame is left, and by "render",
\* which always slices.
TrimFormsAgree ==
    \A c \in Conns : \A n \in 0..(MaxBytes - TotalSent(sent, Conns)) :
        LET msg == BinaryMessage(StreamChunk(c, sent[c], n))
        IN  Observable(MessageHandler("http", ConnState(c), msg))
                = Observable(MessageHandler("render", ConnState(c), msg))

\* C15: a connection whose samples received so far make up whole frames
\* has an empty Sample Buffer after the handler, and the two ways of
\* trimming the buffer give the same frames, messages and buffer.
C15_ExactMultipleLeavesEmpty ==
    /\ \A c \in Conns :
          Len(received[c]) % FRAME_LENGTH = 0 => sampleBuffer[c] = << >>
    /\ TrimFormsAgree

\* C16: when the detector's constructor throws, the process never listens,
\* never has a connection or a detector call, keeps no handle, and once it
\* has ended its status is not 0; and no connection is ever open while the
\* handle is uninitialised.
C16_InitFailureEndsProcess ==
    /\ initThrows
          => /\ pc \in {"check_key", "init", "exited", "crashed"}
             /\ pc \in {"exited", "crashed"} => exitCode > 0
             /\ porcupineHandle = "undefined"
             /\ ~listening
             /\ \A c \in Conns : ~open[c] /\ processed[c] = << >>
    /\ \A c \in Conns : open[c] => porcupineHandle # "undefined"

\* The access key was there, the constructor threw, the process has ended.
C16_Witness ==
    /\ initThrows /\ ACCESS_KEY # ""
    /\ pc \in {"exited", "crashed"} /\ exitCode = 1
    /\ porcupineHandle = "undefined"

\* The constructor has been called: the script got past the key check and
\* the initialisation.
ConstructorCalled == ACCESS_KEY # "" /\ pc \notin {"check_key", "init"}

\* C17: the detector's constructor is given as many sensitivities as
\* keyword paths, whatever the number of paths configured.
C17_OneSensitivityPerKeywordPath ==
    ConstructorCalled => Len(sensitivities) = Len(KEYWORD_PATHS)

\* C18: the handling of a binary chunk on c ends, and when no exception
\* left the handler it has made exactly floor(L / FRAME_LENGTH) detector
\* calls, L being the length of the buffer with the chunk's samples added,
\* and has shortened the buffer by FRAME_LENGTH for each of them, whatever
\* the detector's outcomes; an exception leaving the handler ends it sooner.
C18_LoopIterations ==
    [][\A c \in Conns :
          BinaryReceived(c)
              => LET L == Len(sampleBuffer[c])
                              + Len(received'[c]) - Len(received[c])
                     iterations == Len(processed'[c]) - Len(processed[c])
                 IN  IF pc' = "crashed"
                     THEN iterations <= L \div FRAME_LENGTH
                     ELSE /\ iterations = L \div FRAME_LENGTH
                          /\ Len(sampleBuffer'[c]) = L - iterations * FRAME_LENGTH]_vars

\* One connection has had two frames passed, the first with a caught throw
\* of the detector, the second with no match, and its buffer is used up.
C18_Witness ==
    \E c \in Conns :
        /\ pc = "serving"
        /\ Len(processed[c]) = 2
        /\ Threw(processed[c][1])
        /\ ~Threw(processed[c][2]) /\ ~Matched(processed[c][2])
        /\ sampleBuffer[c] = << >>

\* C19: the step that releases the handle and every step after it make no
\* detector call and send no message on any connection.
C19_NoUseAfterRelease ==
    [][(porcupineHandle = "deleted" \/ porcupineHandle' = "deleted")
          => UNCHANGED <<processed, outbox>>]_vars

\* The handle has been released while a connection that has had a frame
\* passed is still open and its client could send more audio.
C19_Witness ==
    /\ porcupineHandle = "deleted"
    /\ TotalSent(sent, Conns) < MaxBytes
    /\ \E c \in Conns : open[c] /\ Len(processed[c]) >= 1

============================================================================
